---- MODULE Spec2Model ----
(***************************************************************************)
(* The adaptive decision-policy subsystem of the email agent: the rule     *)
(* store and Decision Evaluator (agent/model_updater.py), the Exploration  *)
(* Controller (agent/exploration.py), the Feedback Validator               *)
(* (agent/feedback.py), the Strategy Synthesizer                           *)
(* (agent/strategy_evolution.py), the deprecation pass and the scheduler   *)
(* (agent/continuous_improver.py) and process_email (agent/agent.py).      *)
(*                                                                         *)
(* Conventions.  Firestore collections are functions or sequences of       *)
(* records.  A confidence, probability or accuracy is an integer number of *)
(* hundredths (0.6 is 60).  datetime.utcnow() is the variable now, counted *)
(* in ticks; every operation that reads the clock takes one tick, and      *)
(* Elapse moves to a later day.  A key that a Python dict lacks is modelled by a *)
(* has_<key> flag, the integer 0 (ids and timestamps, which start at 1) or *)
(* the string "none".                                                      *)
(***************************************************************************)
EXTENDS Integers, Sequences, FiniteSets, TLC

VARIABLES
    now,                    \* datetime.utcnow(), in ticks
    learned_rules,          \* collection 'learned_rules': document id -> rule
    rule_applications,      \* collection 'rule_applications': sequence of records
    exploration_hypotheses, \* collection 'exploration_hypotheses': id -> hypothesis
    agent_decisions,        \* collection 'agent_decisions': id -> decision
    training_feedback,      \* collection 'training_feedback': sequence of records
    feedback,               \* collection 'feedback' (read by get_rule_performance)
    model_config,           \* document model_config/current_weights
    last,                   \* what the last operation returned to its caller
    loops,                  \* the tasks running continuous_learning_loop
    agent_config            \* document agent_config/decision_weights

vars == <<now, learned_rules, rule_applications, exploration_hypotheses,
          agent_decisions, training_feedback, feedback, model_config, last,
          loops, agent_config>>

stores == <<learned_rules, rule_applications, exploration_hypotheses,
            agent_decisions, training_feedback, feedback, model_config,
            agent_config>>

----------------------------------------------------------------------------
(* Bounds of the model *)

TicksPerDay == 16      \* clock ticks in a day: fewer operations than this per day
MaxDay == 40           \* the clock stops at the end of this day
MaxEmails == 3         \* emails processed by process_email
MaxFeedback == 3       \* feedback events recorded
MaxRules == 3          \* rule documents in the store
MaxApplications == 12  \* rule_applications records
MaxVersion == 3        \* versions of the weight configuration
MaxLoops == 2          \* calls of start_learning_loop_background
MaxIterations == 2     \* iterations of a learning loop

----------------------------------------------------------------------------
(* Values *)

ActionNames == {"archive", "star"}

\* An email as process_email receives it, with the person and cluster context
\* the people graph holds for its sender.
\* message_id is email.get('message_id') ("none": the key is missing);
\* from_domain is email['from'].split('@')[-1]; subject_words the lower-cased
\* substrings of the subject that a rule may look for; person_relationship_type
\* is person_context['relationship'].get('relationship_type') ("none": the people
\* graph stores the key 'type' only).
Emails ==
    { [id |-> "e1", message_id |-> "m1", from_domain |-> "acme.com", subject_words |-> {"hi"}, hour |-> 9,
       has_attachment |-> FALSE, relationship_type |-> "work",
       person_relationship_type |-> "work",
       importance_score |-> 70, avg_reply_rate |-> 50],
      [id |-> "e2", message_id |-> "none", from_domain |-> "other.org", subject_words |-> {"invoice", "due"},
       hour |-> 20, has_attachment |-> TRUE, relationship_type |-> "friend",
       person_relationship_type |-> "none",
       importance_score |-> 30, avg_reply_rate |-> 10] }

\* One entry of a rule's 'conditions' dict.  value is the expected value of an
\* equality or substring clause, min/max the bounds of a threshold clause.
Clause(key, value) ==
    [key |-> key, value |-> value, has_min |-> FALSE, min |-> 0,
     has_max |-> FALSE, max |-> 0]

MinClause(key, min) ==
    [key |-> key, value |-> "none", has_min |-> TRUE, min |-> min,
     has_max |-> FALSE, max |-> 0]

\* The clock can advance by n ticks within the day.
CanTick(n) == (now % TicksPerDay) + n < TicksPerDay

\* The ticks of the clock since the day began: a bound on the operations of a
\* run in which no day passes.
OpsSoFar == (now % TicksPerDay) - 1

\* Ids above every timestamp, for the rules a caller names.
GivenRuleBase == (MaxDay + 1) * TicksPerDay

\* The rule dicts a caller hands to update_decision_model (the shape
\* test_learning_loop.py and the Decision Evaluator use: 'id', 'pattern',
\* 'conditions', 'action', 'confidence').
GivenRules ==
    { [id |-> GivenRuleBase + 1, conditions |-> {Clause("sender_domain", "acme.com")},
       action |-> "archive", confidence |-> 90],
      [id |-> GivenRuleBase + 2, conditions |-> {Clause("sender_contains", "bob")},
       action |-> "star", confidence |-> 90],
      [id |-> GivenRuleBase + 3, conditions |-> {Clause("relationship_type", "work"),
                                           MinClause("importance_score", 50)},
       action |-> "star", confidence |-> 70] }

\* What decide_action returns: an action and, unless the key is missing, a
\* confidence.
BasePredictions ==
    [action : ActionNames, has_confidence : {TRUE}, confidence : {50, 85}]
    \cup [action : ActionNames, has_confidence : {FALSE}, confidence : {0}]

----------------------------------------------------------------------------
(* agent/model_updater.py: the Decision Evaluator *)

\* One iteration of the loop of rule_matches: TRUE when the clause returns False.
ClauseFails(c, email) ==
    CASE c.key = "sender_domain" -> email.from_domain # c.value
      [] c.key = "relationship_type" -> email.person_relationship_type # c.value
      [] c.key = "hour_of_day" ->
            \/ (c.has_min /\ email.hour < c.min)
            \/ (c.has_max /\ email.hour > c.max)
      [] c.key = "subject_contains" -> c.value \notin email.subject_words
      [] c.key = "importance_score" -> c.has_min /\ email.importance_score < c.min
      [] c.key = "cluster_reply_rate" -> c.has_min /\ email.avg_reply_rate < c.min
      [] c.key = "has_attachment" -> email.has_attachment # (c.value = "true")
      [] OTHER -> FALSE

\* rule_matches(rule, email, person_context, cluster_context)
rule_matches(rule, email) ==
    \A c \in rule.conditions : ~ClauseFails(c, email)

\* The documents of a query on learned_rules, in the order Firestore streams
\* them (by document id).
RECURSIVE StreamIds(_)
StreamIds(ids) ==
    IF ids = {} THEN <<>>
    ELSE LET m == CHOOSE i \in ids : \A j \in ids : i <= j
         IN <<m>> \o StreamIds(ids \ {m})

\* Every document of the collection, whatever its status.
AllRuleIds == DOMAIN learned_rules

ActiveRuleIds == {i \in DOMAIN learned_rules : learned_rules[i].status = "active"}

\* list.sort(key=confidence, reverse=True): a stable sort, so rules of equal
\* confidence keep the order of the stream.
RECURSIVE InsertByConfidence(_, _)
InsertByConfidence(sorted, i) ==
    IF sorted = <<>> THEN <<i>>
    ELSE IF learned_rules[Head(sorted)].confidence >= learned_rules[i].confidence
         THEN <<Head(sorted)>> \o InsertByConfidence(Tail(sorted), i)
         ELSE <<i>> \o sorted

RECURSIVE SortByConfidence(_)
SortByConfidence(ids) ==
    IF ids = <<>> THEN <<>>
    ELSE InsertByConfidence(SortByConfidence(SubSeq(ids, 1, Len(ids) - 1)),
                            ids[Len(ids)])

\* A stream whose order is not fixed by the document ids: it runs backwards
\* whenever the number of rule_applications documents is odd.
RulesInUnstableOrder ==
    LET ids == StreamIds(ActiveRuleIds)
        backwards == [k \in 1..Len(ids) |-> ids[Len(ids) + 1 - k]]
    IN  SortByConfidence(IF Len(rule_applications) % 2 = 1 THEN backwards ELSE ids)

\* The rules apply_learned_rules_to_decision iterates over, in its order.
RulesToCheck == SortByConfidence(StreamIds(ActiveRuleIds))

\* A loop that does not stop at the first match: it returns the first matching
\* rule and records an application for every matching rule.
ApplyEveryMatch(ids, email, base_prediction) ==
    LET matching == SelectSeq(ids, LAMBDA i : rule_matches(learned_rules[i], email))
    IN  IF matching = <<>>
        THEN [raised |-> FALSE, action |-> base_prediction.action,
              has_confidence |-> base_prediction.has_confidence,
              confidence |-> base_prediction.confidence,
              learned_rule_id |-> 0, applications |-> <<>>]
        ELSE [raised |-> FALSE, action |-> learned_rules[matching[1]].action,
              has_confidence |-> TRUE,
              confidence |-> learned_rules[matching[1]].confidence,
              learned_rule_id |-> learned_rules[matching[1]].id,
              applications |->
                  [k \in 1..Len(matching) |->
                      [rule_id |-> learned_rules[matching[k]].id,
                       email_id |-> email.message_id,
                       overrode_base_prediction |-> base_prediction.action,
                       used_learned_action |-> learned_rules[matching[k]].action]]]

\* The loop of apply_learned_rules_to_decision over the sorted rules: what the
\* call returns and the rule_applications records it adds.  The first matching
\* rule ends the loop.  raised: rule['pattern'] or rule['id'] of that rule is a
\* KeyError, raised before anything is written.
RECURSIVE ApplyFirstMatch(_, _, _)
ApplyFirstMatch(ids, email, base_prediction) ==
    IF ids = <<>>
    THEN [raised |-> FALSE, action |-> base_prediction.action,
          has_confidence |-> base_prediction.has_confidence,
          confidence |-> base_prediction.confidence,
          learned_rule_id |-> 0, applications |-> <<>>]
    ELSE LET rule == learned_rules[Head(ids)] IN
         IF ~rule_matches(rule, email)
         THEN ApplyFirstMatch(Tail(ids), email, base_prediction)
         ELSE IF ~rule.has_pattern \/ rule.id = 0
         THEN [raised |-> TRUE, action |-> "none", has_confidence |-> FALSE,
               confidence |-> 0, learned_rule_id |-> 0, applications |-> <<>>]
         ELSE [raised |-> FALSE, action |-> rule.action, has_confidence |-> TRUE,
               confidence |-> rule.confidence, learned_rule_id |-> rule.id,
               applications |-> << [rule_id |-> rule.id,
                                    email_id |-> email.message_id,
                                    overrode_base_prediction |-> base_prediction.action,
                                    used_learned_action |-> rule.action] >>]

\* apply_learned_rules_to_decision(email, person_context, cluster_context,
\* base_prediction, db)
apply_learned_rules_to_decision(email, base_prediction) ==
    ApplyFirstMatch(RulesToCheck, email, base_prediction)

----------------------------------------------------------------------------
(* agent/exploration.py: the Exploration Controller *)

\* is_performance_plateaued(performance): performance is the list of the
\* accuracies (0 or 100) of the recent decisions that have feedback.
RECURSIVE SumSeq(_)
SumSeq(q) == IF q = <<>> THEN 0 ELSE Head(q) + SumSeq(Tail(q))

is_performance_plateaued(performance) ==
    IF Len(performance) < 20 THEN FALSE
    ELSE LET n == Len(performance)
             recent_10 == SubSeq(performance, n - 9, n)
             previous_10 == SubSeq(performance, n - 19, n - 10)
         IN  \* avg_recent - avg_previous < 0.02, both averages over 10 entries
             SumSeq(recent_10) - SumSeq(previous_10) < 20

\* `elif is_novel_context(email_data, db)`: is_novel_context is a coroutine
\* function and the call is not awaited, so the condition tests a coroutine
\* object, which is true whatever the store holds.
is_novel_context_condition == TRUE

\* A chain that tests the limited-data trigger before the confidence.
limited_data_first(current_prediction, history_len, performance) ==
    IF history_len < 10 THEN 30
    ELSE IF current_prediction.has_confidence /\ current_prediction.confidence >= 60
         THEN 10
         ELSE 40

\* The if/elif chain of should_explore.  confidence is
\* current_prediction.get('confidence', 0.5).
exploration_rate(current_prediction, history_len, performance) ==
    LET confidence == IF current_prediction.has_confidence
                      THEN current_prediction.confidence ELSE 50
    IN  IF confidence < 60 THEN 40
        ELSE IF history_len < 10 THEN 30
        ELSE IF is_performance_plateaued(performance) THEN 50
        ELSE IF is_novel_context_condition THEN 40
        ELSE 10

\* should_explore returns the tuple (explore, exploration_rate); draw is
\* random.random() in hundredths.
should_explore(current_prediction, history_len, performance, draw) ==
    LET rate == exploration_rate(current_prediction, history_len, performance)
    IN  [explore |-> draw < rate, exploration_rate |-> rate]

\* store_hypothesis: the document it writes.
HypothesisDoc(email, alternative_action) ==
    [email_id |-> email.id, alternative_action |-> alternative_action,
     relationship_type |-> email.relationship_type, created_at |-> now,
     status |-> "testing", validation_result |-> "none", validated_at |-> 0,
     feedback_type |-> "none", correct_action |-> "none"]

\* What the Strategy Proposer (the Groq call) may answer to
\* generate_alternative_strategy: "error" is a raised call, unparsable JSON or a
\* payload without 'hypothesis', 'alternative_action' or 'expected_outcome';
\* "no_success_criteria" a payload that lacks only 'success_criteria'.
ProposerAnswers ==
    [kind : {"ok", "no_success_criteria"}, alternative_action : ActionNames]
    \cup [kind : {"error"}, alternative_action : {"none"}]

\* generate_alternative_strategy: the decision it returns and the hypotheses
\* collection it leaves.  The hypothesis is stored before the returned dict is
\* built, and alternative['success_criteria'] is read while building it.
generate_alternative_strategy(email, current_prediction, answer) ==
    LET stored == Append(exploration_hypotheses,
                         HypothesisDoc(email, answer.alternative_action))
    IN  CASE answer.kind = "ok" ->
               [action |-> answer.alternative_action, is_exploration |-> TRUE,
                hypothesis_id |-> Len(stored), has_confidence |-> TRUE,
                confidence |-> 50, learned_rule_id |-> 0,
                hypotheses |-> stored]
          [] answer.kind = "no_success_criteria" ->
               [action |-> current_prediction.action, is_exploration |-> FALSE,
                hypothesis_id |-> 0,
                has_confidence |-> current_prediction.has_confidence,
                confidence |-> current_prediction.confidence,
                learned_rule_id |-> current_prediction.learned_rule_id,
                hypotheses |-> stored]
          [] OTHER ->
               [action |-> current_prediction.action, is_exploration |-> FALSE,
                hypothesis_id |-> 0,
                has_confidence |-> current_prediction.has_confidence,
                confidence |-> current_prediction.confidence,
                learned_rule_id |-> current_prediction.learned_rule_id,
                hypotheses |-> exploration_hypotheses]

----------------------------------------------------------------------------
(* agent/agent.py: process_email *)

\* get_similar_decisions: the decisions whose top-level 'relationship_type'
\* equals the email's (at most 20 of them).
get_similar_decisions(email) ==
    LET similar == {d \in DOMAIN agent_decisions :
                      agent_decisions[d].relationship_type = email.relationship_type}
    IN  IF Cardinality(similar) > 20 THEN 20 ELSE Cardinality(similar)

\* get_recent_performance: one entry per decision that has a 'feedback' key,
\* 100 when feedback.get('correct') is true and 0 otherwise.
get_recent_performance ==
    LET with_feedback == SelectSeq(agent_decisions,
                                   LAMBDA d : d.feedback_type # "none")
    IN  [i \in DOMAIN with_feedback |->
            IF with_feedback[i].feedback_correct THEN 100 ELSE 0]

\* `if await should_explore(email, decision, db):` tests the returned tuple
\* (explore, exploration_rate); a tuple of two elements is true.
explore_condition(returned) == TRUE

\* The document store_decision writes, with the exploration_metadata that
\* process_email adds to it.  store_decision sets no top-level
\* 'relationship_type' and no 'feedback'.
DecisionDoc(email, decision, exploration_metadata) ==
    [email_id |-> email.id, action |-> decision.action, timestamp |-> now,
     relationship_type |-> "none",
     exploration_metadata |-> exploration_metadata,
     feedback_type |-> "none", feedback_correct |-> FALSE]

NoExploration == [is_exploration |-> FALSE, hypothesis_id |-> 0, base_action |-> "none"]

\* process_email(email).  base_decision is what decide_action returned, answer
\* the Strategy Proposer's answer, draw the random draw of should_explore,
\* store_ok whether store_decision succeeds.
\* last records what the call returned (status, decision, exploration_metadata,
\* decision_id) and, for the properties, what happened inside it: the action
\* of the decision before exploration (exploit_action), the proposer's answer
\* when it was asked, the draw and the rate of should_explore.
process_email(email, base_decision, answer, draw, store_ok) ==
    /\ UNCHANGED <<loops, agent_config>>
    /\ CanTick(1)
    /\ now' = now + 1
    /\ UNCHANGED <<learned_rules, training_feedback, feedback, model_config>>
    /\ LET decision == apply_learned_rules_to_decision(email, base_decision) IN
       IF decision.raised
       THEN /\ UNCHANGED <<rule_applications, exploration_hypotheses, agent_decisions>>
            /\ last' = [op |-> "process_email", status |-> "error", email_id |-> email.id,
                        action |-> "none", learned_rule_id |-> 0,
                        exploration_metadata |-> NoExploration, decision_id |-> 0,
                        exploit_action |-> "none", answer |-> "none",
                        draw |-> draw, exploration_rate |-> 0]
       ELSE
         LET returned == should_explore(decision, get_similar_decisions(email),
                                        get_recent_performance, draw)
             explores == explore_condition(returned)
             alternative == generate_alternative_strategy(email, decision, answer)
             final == IF explores THEN alternative ELSE decision
             exploration_metadata ==
                 IF explores
                 THEN [is_exploration |-> TRUE,
                       hypothesis_id |-> alternative.hypothesis_id,
                       base_action |-> base_decision.action]
                 ELSE NoExploration
         IN /\ rule_applications' = rule_applications \o decision.applications
            /\ exploration_hypotheses' =
                   IF explores THEN alternative.hypotheses ELSE exploration_hypotheses
            /\ IF store_ok
               THEN /\ agent_decisions' =
                          Append(agent_decisions,
                                 DecisionDoc(email, final, exploration_metadata))
                    /\ last' = [op |-> "process_email", status |-> "success",
                                email_id |-> email.id, action |-> final.action,
                                learned_rule_id |-> final.learned_rule_id,
                                exploration_metadata |-> exploration_metadata,
                                decision_id |-> Len(agent_decisions) + 1,
                                exploit_action |-> decision.action,
                                answer |-> IF explores THEN answer.kind ELSE "none",
                                draw |-> draw,
                                exploration_rate |-> returned.exploration_rate]
               ELSE /\ UNCHANGED agent_decisions
                    /\ last' = [op |-> "process_email", status |-> "error",
                                email_id |-> email.id, action |-> "none",
                                learned_rule_id |-> 0,
                                exploration_metadata |-> NoExploration,
                                decision_id |-> 0,
                                exploit_action |-> decision.action,
                                answer |-> IF explores THEN answer.kind ELSE "none",
                                draw |-> draw,
                                exploration_rate |-> returned.exploration_rate]

----------------------------------------------------------------------------
(* agent/feedback.py: the Feedback Validator *)

\* A test that counts only 'action_correct' as success.
action_correct_only(exploration_metadata, feedback_type, correct_action) ==
    feedback_type = "action_correct"

\* is_successful of validate_exploration_hypothesis
is_successful(exploration_metadata, feedback_type, correct_action) ==
    \/ feedback_type = "action_correct"
    \/ /\ feedback_type = "action_wrong"
       /\ correct_action = exploration_metadata.base_action

\* A validator that resolves the newest hypothesis of the store when the
\* decision names none that exists.
validate_newest_hypothesis(exploration_metadata, feedback_type, correct_action) ==
    IF exploration_hypotheses = << >> THEN exploration_hypotheses
    ELSE LET hypothesis_id ==
                 IF exploration_metadata.hypothesis_id \in DOMAIN exploration_hypotheses
                 THEN exploration_metadata.hypothesis_id
                 ELSE Len(exploration_hypotheses)
         IN  [exploration_hypotheses EXCEPT ![hypothesis_id] =
                [@ EXCEPT !.validation_result =
                              IF is_successful(exploration_metadata, feedback_type,
                                               correct_action)
                              THEN "validated" ELSE "rejected",
                          !.validated_at = now,
                          !.feedback_type = feedback_type,
                          !.correct_action = correct_action]]

\* validate_exploration_hypothesis: the hypotheses collection it leaves.
validate_exploration_hypothesis(exploration_metadata, feedback_type, correct_action) ==
    LET hypothesis_id == exploration_metadata.hypothesis_id IN
    IF hypothesis_id = 0 THEN exploration_hypotheses
    ELSE IF hypothesis_id \notin DOMAIN exploration_hypotheses
    THEN exploration_hypotheses
    ELSE [exploration_hypotheses EXCEPT ![hypothesis_id] =
            [@ EXCEPT !.validation_result =
                          IF is_successful(exploration_metadata, feedback_type,
                                           correct_action)
                          THEN "validated" ELSE "rejected",
                      !.validated_at = now,
                      !.feedback_type = feedback_type,
                      !.correct_action = correct_action]]

\* process_feedback_for_learning: the hypotheses collection it leaves.
process_feedback_for_learning(decision_id, feedback_type, correct_action) ==
    IF decision_id \notin DOMAIN agent_decisions THEN exploration_hypotheses
    ELSE LET exploration_metadata == agent_decisions[decision_id].exploration_metadata
         IN  IF exploration_metadata.is_exploration
             THEN validate_exploration_hypothesis(exploration_metadata,
                                                  feedback_type, correct_action)
             ELSE exploration_hypotheses


\* record_feedback(decision_id, feedback_type, feedback_data, db);
\* correct_action is feedback_data.get('correct_action').
record_feedback(decision_id, feedback_type, correct_action) ==
    /\ UNCHANGED <<loops, agent_config>>
    /\ CanTick(1)
    /\ now' = now + 1
    /\ training_feedback' =
          Append(training_feedback,
                 [decision_id |-> decision_id, feedback_type |-> feedback_type,
                  correct_action |-> correct_action, timestamp |-> now])
    /\ agent_decisions' =
          IF decision_id \in DOMAIN agent_decisions
          THEN [agent_decisions EXCEPT ![decision_id].feedback_type = feedback_type]
          ELSE agent_decisions
    /\ exploration_hypotheses' =
          process_feedback_for_learning(decision_id, feedback_type, correct_action)
    /\ last' = [op |-> "record_feedback", status |-> "recorded",
                decision_id |-> decision_id]
    /\ UNCHANGED <<learned_rules, rule_applications, feedback, model_config>>

----------------------------------------------------------------------------
(* agent/strategy_evolution.py: the Strategy Synthesizer *)

Days(n) == n * TicksPerDay

\* The ids, in stream order, of the hypotheses a query with
\* created_at >= cutoff and validation_result == result returns.
RECURSIVE HypothesesWith(_, _, _)
HypothesesWith(result, cutoff, n) ==
    IF n = 0 THEN <<>>
    ELSE LET rest == HypothesesWith(result, cutoff, n - 1) IN
         IF /\ exploration_hypotheses[n].validation_result = result
            /\ exploration_hypotheses[n].created_at >= cutoff
         THEN Append(rest, n) ELSE rest

\* get_validated_hypotheses(db, days=7)
get_validated_hypotheses ==
    HypothesesWith("validated", now - Days(7), Len(exploration_hypotheses))

\* The key cluster_similar_hypotheses groups by.
ClusterKey(h) ==
    <<exploration_hypotheses[h].relationship_type,
      exploration_hypotheses[h].alternative_action>>

\* The keys of the defaultdict, in insertion order.
RECURSIVE ClusterKeys(_)
ClusterKeys(hyps) ==
    IF hyps = <<>> THEN <<>>
    ELSE LET rest == ClusterKeys(SubSeq(hyps, 1, Len(hyps) - 1))
             k == ClusterKey(hyps[Len(hyps)])
         IN  IF \E i \in DOMAIN rest : rest[i] = k THEN rest ELSE Append(rest, k)

\* A clustering that keeps every cluster, whatever its size.
clusters_of_any_size(hyps) ==
    LET keys == ClusterKeys(hyps)
    IN  [i \in DOMAIN keys |-> SelectSeq(hyps, LAMBDA h : ClusterKey(h) = keys[i])]

\* cluster_similar_hypotheses: the clusters of 3 or more hypotheses.
cluster_similar_hypotheses(hyps) ==
    LET keys == ClusterKeys(hyps)
        clusters == [i \in DOMAIN keys |->
                        SelectSeq(hyps, LAMBDA h : ClusterKey(h) = keys[i])]
    IN  SelectSeq(clusters, LAMBDA c : Len(c) >= 3)

\* The clusters extract_generalizable_patterns asks the proposer about.
CandidateClusters ==
    IF Len(get_validated_hypotheses) < 3 THEN <<>>
    ELSE cluster_similar_hypotheses(get_validated_hypotheses)

\* What the Strategy Proposer may answer to synthesize_pattern_from_cluster:
\* a pattern dict, or "error" (the call raises or the answer does not parse),
\* for which synthesize_pattern_from_cluster returns None.
PatternConditions == {"relationship_type == work", "time_hour < 10"}
PatternConfidences == {80, 150}
SynthesisAnswers ==
    [kind : {"ok"}, condition : PatternConditions, action : ActionNames,
     confidence : PatternConfidences]
    \cup [kind : {"error"}, condition : {"none"}, action : {"none"}, confidence : {0}]

\* create_decision_rule: the document it writes for a pattern at time t.  The
\* document has the keys 'rule_id' and 'condition'; it has no 'id', 'pattern'
\* or 'conditions'.
DecisionRule(pattern, t) ==
    [id |-> 0, rule_id |-> t, has_pattern |-> FALSE, conditions |-> {},
     condition |-> pattern.condition, action |-> pattern.action,
     confidence |-> pattern.confidence, created_at |-> t,
     attempts |-> 0, successes |-> 0, status |-> "active",
     activated_at |-> 0, deprecated_at |-> 0, deprecation_reason |-> "none"]

\* create_decision_rule(pattern, db): the rule store after the write.  The
\* document id is learned_<timestamp>.
create_decision_rule(rules, pattern, t) ==
    [i \in DOMAIN rules \cup {t} |->
        IF i = t THEN DecisionRule(pattern, t) ELSE rules[i]]

\* STEP 3 of evolve_strategies over the patterns, the k-th written at time
\* now + k - 1.  create_decision_rule(None) raises (None['condition']) and ends
\* the run; the rules written before stay.
RECURSIVE CreateRules(_, _, _)
CreateRules(rules, patterns, k) ==
    IF k > Len(patterns) THEN [rules |-> rules, raised |-> FALSE, created |-> k - 1]
    ELSE IF patterns[k].kind = "error"
    THEN [rules |-> rules, raised |-> TRUE, created |-> k - 1]
    ELSE CreateRules(create_decision_rule(rules, patterns[k], now + k - 1),
                     patterns, k + 1)

\* identify_failing_strategies: the active rules with more than 10 attempts and
\* accuracy (successes / attempts) below 0.5, read from rule['performance'].
identify_failing_strategies(rules) ==
    {i \in DOMAIN rules :
        /\ rules[i].status = "active"
        /\ rules[i].attempts > 10
        /\ 2 * rules[i].successes < rules[i].attempts}

\* deprecate_strategy(rule_id, db)
deprecate_strategy(rules, i, t) ==
    [rules EXCEPT ![i] = [@ EXCEPT !.status = "deprecated", !.deprecated_at = t]]

\* STEP 4 of evolve_strategies
DeprecateFailing(rules, t) ==
    [i \in DOMAIN rules |->
        IF i \in identify_failing_strategies(rules) /\ rules[i].attempts > 20
        THEN deprecate_strategy(rules, i, t)[i] ELSE rules[i]]

\* The document agent_config/decision_weights before anything wrote it.
NoDecisionWeights == [exists |-> FALSE, weights |-> <<0, 0, 0>>, accuracy |-> 0]

\* get_decisions_with_feedback(db, limit=100): of the newest 100 decisions,
\* those that have 'feedback'.  n is their number, correct the number of them
\* whose feedback.get('correct') is true.
get_decisions_with_feedback ==
    LET judged == SelectSeq(agent_decisions, LAMBDA d : d.feedback_type # "none")
    IN  [n |-> Len(judged),
         correct |-> Len(SelectSeq(judged, LAMBDA d : d.feedback_correct))]

\* An accuracy that grows with the weight of the person score.
weight_sensitive_accuracy(decisions, weights) ==
    IF decisions.n = 0 THEN 0
    ELSE ((1000 * decisions.correct) \div decisions.n + 10 * weights[1]) \div 2

\* calculate_weight_accuracy(decisions, weights), in thousandths.
calculate_weight_accuracy(decisions, weights) ==
    IF decisions.n = 0 THEN 0 ELSE (1000 * decisions.correct) \div decisions.n

\* The weights of the grid search, in hundredths, in the order of the three
\* nested loops; a vector is <<person_score, cluster_score, patterns_score>>,
\* content_score and recency_score being 0.8 and 0.2 of the remainder.
GridWeights ==
    [k \in 1..36 |->
        <<<<20, 30, 40, 50>>[((k - 1) \div 9) + 1],
          <<10, 20, 30>>[(((k - 1) \div 3) % 3) + 1],
          <<10, 20, 30>>[((k - 1) % 3) + 1]>>]

\* The vectors whose remainder 1.0 - person_w - cluster_w - pattern_w is
\* 0.09999999999999998 in floating point, below the 0.1 of the test.
RemainderRoundsBelowTenth ==
    {<<30, 30, 30>>, <<40, 20, 30>>, <<40, 30, 20>>, <<50, 20, 20>>}

\* `if remaining < 0.1: continue`
GridSkips(w) ==
    \/ 100 - w[1] - w[2] - w[3] < 10
    \/ w \in RemainderRoundsBelowTenth

\* The grid search from its k-th vector on: the best accuracy and weights.
RECURSIVE GridSearch(_, _, _, _)
GridSearch(decisions, k, best_accuracy, best_weights) ==
    IF k > Len(GridWeights)
    THEN [best_accuracy |-> best_accuracy, best_weights |-> best_weights]
    ELSE LET test_weights == GridWeights[k]
             accuracy == calculate_weight_accuracy(decisions, test_weights)
         IN  IF ~GridSkips(test_weights) /\ accuracy > best_accuracy
             THEN GridSearch(decisions, k + 1, accuracy, test_weights)
             ELSE GridSearch(decisions, k + 1, best_accuracy, best_weights)

\* optimize_decision_weights(db) on the decisions with feedback: what it
\* returns and the document agent_config/decision_weights it leaves.
optimize_decision_weights(recent_decisions, config) ==
    IF recent_decisions.n < 20
    THEN [improved |-> FALSE, reason |-> "insufficient_data", config |-> config]
    ELSE LET current_weights == <<35, 20, 20>>
             current == calculate_weight_accuracy(recent_decisions, current_weights)
             best == GridSearch(recent_decisions, 1, current, current_weights)
             improvement == best.best_accuracy - current
         IN  IF improvement > 20
             THEN [improved |-> TRUE, reason |-> "none",
                   config |-> [exists |-> TRUE, weights |-> best.best_weights,
                               accuracy |-> best.best_accuracy]]
             ELSE [improved |-> FALSE, reason |-> "no_improvement_found",
                   config |-> config]

\* evolve_strategies(db).  answers[k] is the proposer's answer for the k-th
\* candidate cluster.
evolve_strategies(answers) ==
    /\ UNCHANGED loops
    /\ CanTick(Len(CandidateClusters) + 1)
    /\ DOMAIN answers = DOMAIN CandidateClusters
    /\ LET step3 == CreateRules(learned_rules, answers, 1) IN
       /\ now' = now + Len(CandidateClusters) + 1
       /\ learned_rules' =
             IF step3.raised THEN step3.rules
             ELSE DeprecateFailing(step3.rules, now + Len(CandidateClusters))
       /\ agent_config' =
             IF step3.raised THEN agent_config
             ELSE optimize_decision_weights(get_decisions_with_feedback,
                                            agent_config).config
       /\ last' = [op |-> "evolve_strategies", raised |-> step3.raised,
                   new_rules_created |-> step3.created]
    /\ UNCHANGED <<rule_applications, exploration_hypotheses, agent_decisions,
                   training_feedback, feedback, model_config>>

----------------------------------------------------------------------------
(* agent/model_updater.py: the rule store *)

\* The document update_decision_model writes for a rule dict:
\* {**rule, 'status': 'active', 'activated_at': now}.  set() replaces the
\* document, so only the keys of the dict and these two remain.
ActivatedRule(rule, t) ==
    [id |-> rule.id, rule_id |-> 0, has_pattern |-> TRUE,
     conditions |-> rule.conditions, condition |-> "none",
     action |-> rule.action, confidence |-> rule.confidence,
     created_at |-> IF "created_at" \in DOMAIN rule THEN rule.created_at ELSE 0,
     attempts |-> 0, successes |-> 0, status |-> "active",
     activated_at |-> t, deprecated_at |-> 0, deprecation_reason |-> "none"]

\* The loop "Activate new rules" of update_decision_model.
ActivateRules(rules, new_rules, t) ==
    [i \in DOMAIN rules \cup {r.id : r \in new_rules} |->
        IF \E r \in new_rules : r.id = i
        THEN ActivatedRule(CHOOSE r \in new_rules : r.id = i, t)
        ELSE rules[i]]

\* get_next_version(db)
get_next_version == model_config.version + 1

\* update_decision_model(db, new_rules, new_weights)
update_decision_model(new_rules, new_weights) ==
    /\ UNCHANGED <<loops, agent_config>>
    /\ CanTick(1)
    /\ now' = now + 1
    /\ model_config' = [weights |-> new_weights, updated_at |-> now,
                        version |-> get_next_version]
    /\ learned_rules' = ActivateRules(learned_rules, new_rules, now)
    /\ last' = [op |-> "update_decision_model",
                new_rules_activated |-> Cardinality(new_rules)]
    /\ UNCHANGED <<rule_applications, exploration_hypotheses, agent_decisions,
                   training_feedback, feedback>>

\* A Decision Evaluator invocation on its own, as test_learning_loop.py makes
\* it: apply_learned_rules_to_decision(email, ..., base_prediction, db).
ApplyLearnedRules(email, base_prediction) ==
    /\ UNCHANGED <<loops, agent_config>>
    /\ CanTick(1)
    /\ now' = now + 1
    /\ LET decision == apply_learned_rules_to_decision(email, base_prediction) IN
       /\ rule_applications' = rule_applications \o decision.applications
       /\ last' = [op |-> "apply_learned_rules_to_decision",
                   email |-> email, base_prediction |-> base_prediction,
                   raised |-> decision.raised, action |-> decision.action,
                   has_confidence |-> decision.has_confidence,
                   confidence |-> decision.confidence,
                   learned_rule_id |-> decision.learned_rule_id,
                   written |-> Len(decision.applications)]
    /\ UNCHANGED <<learned_rules, exploration_hypotheses, agent_decisions,
                   training_feedback, feedback, model_config>>

\* deprecate_failing_rule(db, rule_id, reason): the rule store after
\* document(rule_id).update({...}).
deprecate_failing_rule(rules, rule_id, reason, t) ==
    [rules EXCEPT ![rule_id] =
        [@ EXCEPT !.status = "deprecated", !.deprecated_at = t,
                  !.deprecation_reason = reason]]

\* A call of deprecate_failing_rule on a rule of the store.
DeprecateFailingRule(rule_id, reason) ==
    /\ UNCHANGED <<loops, agent_config>>
    /\ CanTick(1)
    /\ rule_id \in DOMAIN learned_rules
    /\ now' = now + 1
    /\ learned_rules' = deprecate_failing_rule(learned_rules, rule_id, reason, now)
    /\ last' = [op |-> "deprecate_failing_rule", rule_id |-> rule_id]
    /\ UNCHANGED <<rule_applications, exploration_hypotheses, agent_decisions,
                   training_feedback, feedback, model_config>>

\* get_rule_performance(db, rule_id): times_used and correct.  For each
\* application the first 'feedback' document with its email_id is looked up.
ApplicationsOf(rule_id) ==
    SelectSeq(rule_applications, LAMBDA a : a.rule_id = rule_id)

FirstFeedbackCorrect(email_id) ==
    LET matching == SelectSeq(feedback, LAMBDA f : f.email_id = email_id)
    IN  matching # <<>> /\ matching[1].correct

times_used(rule_id) == Len(ApplicationsOf(rule_id))

correct_count(rule_id) ==
    Len(SelectSeq(ApplicationsOf(rule_id),
                  LAMBDA a : FirstFeedbackCorrect(a.email_id)))

\* The id deprecate_underperforming_rules gives a rule:
\* {'id': doc.id, **doc.to_dict()}, the document's own 'id' when it has one.
RuleIdOf(rules, i) == IF rules[i].id # 0 THEN rules[i].id ELSE i

\* The two grounds of deprecate_underperforming_rules; a rule without
\* 'created_at' counts as created now.
LowAccuracy(rule_id) ==
    /\ times_used(rule_id) >= 10
    /\ 2 * correct_count(rule_id) < times_used(rule_id)

NeverUsed(rules, i, t) ==
    /\ times_used(RuleIdOf(rules, i)) = 0
    /\ rules[i].created_at # 0
    /\ (t - rules[i].created_at) \div TicksPerDay > 30

\* deprecate_underperforming_rules(db): the rule store it leaves.
deprecate_underperforming_rules(rules, t) ==
    [i \in DOMAIN rules |->
        IF rules[i].status # "active" THEN rules[i]
        ELSE IF LowAccuracy(RuleIdOf(rules, i))
        THEN deprecate_failing_rule(rules, RuleIdOf(rules, i), "Low accuracy", t)[i]
        ELSE IF NeverUsed(rules, i, t)
        THEN deprecate_failing_rule(rules, RuleIdOf(rules, i), "Never used", t)[i]
        ELSE rules[i]]

\* A run of the deprecation pass.
DeprecateUnderperformingRules ==
    /\ UNCHANGED <<loops, agent_config>>
    /\ CanTick(1)
    /\ now' = now + 1
    /\ learned_rules' = deprecate_underperforming_rules(learned_rules, now)
    /\ last' = [op |-> "deprecate_underperforming_rules"]
    /\ UNCHANGED <<rule_applications, exploration_hypotheses, agent_decisions,
                   training_feedback, feedback, model_config>>

\* Days pass.
Elapse(days) ==
    /\ UNCHANGED loops
    /\ (now \div TicksPerDay) + days <= MaxDay
    /\ now' = ((now \div TicksPerDay) + days) * TicksPerDay
    /\ UNCHANGED <<stores, last>>

----------------------------------------------------------------------------
(* agent/continuous_improver.py: the scheduler *)

\* The keys of the dict evolve_strategies returns.
EvolutionResultKeys ==
    {"new_rules_created", "rules_deprecated", "weight_optimization", "new_rules"}

\* get_decisions_in_window(db, days_ago, days_window) at time t: the decisions
\* with start <= timestamp < end.
get_decisions_in_window(t, days_ago, days_window) ==
    SelectSeq(agent_decisions,
              LAMBDA d : /\ d.timestamp >= t - Days(days_ago + days_window)
                         /\ d.timestamp < t - Days(days_ago))

\* calculate_accuracy(decisions), in hundredths: the decisions whose
\* feedback has correct == True over all the decisions of the list.
CalculateAccuracy(decisions) ==
    IF decisions = <<>> THEN 0
    ELSE (100 * Len(SelectSeq(decisions, LAMBDA d : d.feedback_correct)))
            \div Len(decisions)

\* metrics['accuracy_week_1'] of the scheduler's cycle.
calculate_accuracy == CalculateAccuracy(get_decisions_in_window(now, 0, 7))

\* track_performance_metrics(db): the accuracies of the three trailing weeks,
\* computed at time `at`.
track_performance_metrics ==
    /\ UNCHANGED loops
    /\ CanTick(1)
    /\ now' = now + 1
    /\ last' = [op |-> "track_performance_metrics", at |-> now,
                accuracy |-> [w \in 1..3 |->
                    CalculateAccuracy(get_decisions_in_window(now, 7 * (w - 1), 7))]]
    /\ UNCHANGED stores

\* A task running continuous_learning_loop(db, interval_hours), as
\* asyncio.create_task leaves it: at the top of `while True`, no iteration
\* made.  pc is "cycle" at the top of the loop, "sleeping" inside the
\* asyncio.sleep that ends an iteration, "exited" once the coroutine has
\* returned or raised.
LoopTask(interval_hours) ==
    [pc |-> "cycle", iteration |-> 0, interval_hours |-> interval_hours,
     sleep |-> 0]

\* start_learning_loop_background(db, interval_hours)
start_learning_loop_background(interval_hours) ==
    /\ loops' = Append(loops, LoopTask(interval_hours))
    /\ last' = [op |-> "start_learning_loop_background", task |-> Len(loops) + 1]
    /\ UNCHANGED <<now, stores>>

\* A loop that ends when the try block of an iteration raises.
ExitOnFailure(task) ==
    [task EXCEPT !.pc = "exited", !.iteration = @ + 1]

\* The task after an iteration whose try block raised: the except clause has
\* printed the error and the task is in asyncio.sleep(600).
AfterFailedCycle(task) ==
    [task EXCEPT !.pc = "sleeping", !.iteration = @ + 1, !.sleep = 600]

\* The task after an iteration that reached STEP 8.
AfterCycle(task) ==
    [task EXCEPT !.pc = "sleeping", !.iteration = @ + 1,
                 !.sleep = task.interval_hours * 3600]

\* One iteration of the while loop of continuous_learning_loop, made by task
\* t, up to the asyncio.sleep that ends it.  STEP 2 runs evolve_strategies; the
\* print after it reads evolution_results['validated_hypotheses'], and an
\* exception anywhere in the try block is caught and followed by the 600 s
\* sleep.  sleep is the argument of the asyncio.sleep that ends the iteration,
\* proposer_failed whether a synthesis call of STEP 2 failed.
learning_cycle(t, answers) ==
    /\ CanTick(Len(CandidateClusters) + 2)
    /\ t \in DOMAIN loops
    /\ loops[t].pc = "cycle"
    /\ DOMAIN answers = DOMAIN CandidateClusters
    /\ LET step2 == CreateRules(learned_rules, answers, 1)
           t2 == now + Len(CandidateClusters)
           evolved == IF step2.raised THEN step2.rules
                      ELSE DeprecateFailing(step2.rules, t2)
           failed == step2.raised \/ "validated_hypotheses" \notin EvolutionResultKeys
           \* STEP 3: update_decision_model(db, new_rules, current_weights) when
           \* new rules were created; rule['id'] of a created rule is a KeyError,
           \* raised after the weights were written.
           step3_raises == step2.created > 0
           \* STEP 5: update_decision_model(db, [], optimize_decision_weights(db))
           step5 == calculate_accuracy < 80
       IN /\ now' = t2 + 2
          /\ agent_config' =
                IF step2.raised THEN agent_config
                ELSE optimize_decision_weights(get_decisions_with_feedback,
                                               agent_config).config
          /\ IF failed
             THEN /\ learned_rules' = evolved
                  /\ UNCHANGED model_config
                  /\ loops' = [loops EXCEPT ![t] = AfterFailedCycle(loops[t])]
                  /\ last' = [op |-> "learning_cycle", task |-> t,
                              failed |-> TRUE, sleep |-> 600,
                              proposer_failed |-> step2.raised]
             ELSE IF step3_raises
             THEN /\ learned_rules' = evolved
                  /\ model_config' = [model_config EXCEPT !.version = @ + 1,
                                                          !.updated_at = t2 + 1]
                  /\ loops' = [loops EXCEPT ![t] = AfterFailedCycle(loops[t])]
                  /\ last' = [op |-> "learning_cycle", task |-> t,
                              failed |-> TRUE, sleep |-> 600,
                              proposer_failed |-> step2.raised]
             ELSE /\ learned_rules' = deprecate_underperforming_rules(evolved, t2 + 1)
                  /\ model_config' =
                        IF step5
                        THEN [weights |-> "optimization_result", updated_at |-> t2 + 1,
                              version |-> model_config.version + 1]
                        ELSE model_config
                  /\ loops' = [loops EXCEPT ![t] = AfterCycle(loops[t])]
                  /\ last' = [op |-> "learning_cycle", task |-> t,
                              failed |-> FALSE,
                              sleep |-> loops[t].interval_hours * 3600,
                              proposer_failed |-> step2.raised]
    /\ UNCHANGED <<rule_applications, exploration_hypotheses, agent_decisions,
                   training_feedback, feedback>>

\* The asyncio.sleep of task t is over: the task is back at the top of the
\* while loop.
sleep_over(t) ==
    /\ t \in DOMAIN loops
    /\ loops[t].pc = "sleeping"
    /\ loops' = [loops EXCEPT ![t] = [@ EXCEPT !.pc = "cycle", !.sleep = 0]]
    /\ UNCHANGED <<now, stores, last>>

----------------------------------------------------------------------------
(* The system *)

\* The state before the agent has processed anything: empty collections and
\* no weight document (version 0).
Init ==
    /\ now = 1
    /\ loops = << >>
    /\ agent_config = NoDecisionWeights
    /\ learned_rules = << >>
    /\ rule_applications = << >>
    /\ exploration_hypotheses = << >>
    /\ agent_decisions = << >>
    /\ training_feedback = << >>
    /\ feedback = << >>
    /\ model_config = [weights |-> "default", updated_at |-> 0, version |-> 0]
    /\ last = [op |-> "none"]

\* The feedback a user can give on a decision: the type and
\* feedback_data.get('correct_action').
FeedbackInputs ==
    {<<"action_correct", "none">>, <<"response_used", "none">>}
    \cup {<<"action_wrong", a>> : a \in ActionNames}

Draws == {35, 45}
WeightVectors == {"default", "tuned"}

\* The operations, with the inputs and the bounds a specification gives them.
ProcessEmailWith(emails, base_decisions, answers, stores_ok, max) ==
    /\ Len(agent_decisions) < max
    /\ Len(exploration_hypotheses) < max
    /\ Len(rule_applications) < MaxApplications
    /\ \E email \in emails, base_decision \in base_decisions,
          answer \in answers, draw \in Draws, store_ok \in stores_ok :
           process_email(email, base_decision, answer, draw, store_ok)

\* Feedback on a stored decision or on an id the store does not hold.
RecordFeedbackWith(decision_ids, inputs, max) ==
    /\ Len(training_feedback) < max
    /\ \E decision_id \in decision_ids, f \in inputs :
           record_feedback(decision_id, f[1], f[2])

\* The ids of the stored decisions and one id the store does not hold.
DecisionIds == 1..(Len(agent_decisions) + 1)

EvolveStrategiesWith(answers) ==
    /\ Cardinality(DOMAIN learned_rules) + Len(CandidateClusters) <= MaxRules
    /\ \E a \in [DOMAIN CandidateClusters -> answers] : evolve_strategies(a)

UpdateDecisionModelWith(rules, weights) ==
    /\ model_config.version < MaxVersion
    /\ \E new_rules \in SUBSET rules, new_weights \in weights :
           /\ Cardinality(DOMAIN learned_rules \cup {r.id : r \in new_rules})
                 <= MaxRules
           /\ update_decision_model(new_rules, new_weights)

EvaluateDecisionWith(emails, base_predictions) ==
    /\ Len(rule_applications) < MaxApplications
    /\ \E email \in emails, base_prediction \in base_predictions :
           ApplyLearnedRules(email, base_prediction)

DeprecateRule ==
    \E rule_id \in DOMAIN learned_rules, reason \in {"Low accuracy", "Never used"} :
        DeprecateFailingRule(rule_id, reason)

LearningCycleWith(answers) ==
    /\ Cardinality(DOMAIN learned_rules) + Len(CandidateClusters) <= MaxRules
    /\ model_config.version < MaxVersion
    /\ \E t \in DOMAIN loops, a \in [DOMAIN CandidateClusters -> answers] :
           /\ loops[t].iteration < MaxIterations
           /\ learning_cycle(t, a)

\* Calls of start_learning_loop_background, max of them at most.
StartLearningLoopWith(max) ==
    /\ Len(loops) < max
    /\ start_learning_loop_background(6)

SleepOver == \E t \in DOMAIN loops : sleep_over(t)

Next ==
    \/ ProcessEmailWith(Emails, BasePredictions, ProposerAnswers, BOOLEAN, MaxEmails)
    \/ RecordFeedbackWith(DecisionIds, FeedbackInputs, MaxFeedback)
    \/ EvolveStrategiesWith(SynthesisAnswers)
    \/ UpdateDecisionModelWith(GivenRules, WeightVectors)
    \/ EvaluateDecisionWith(Emails, BasePredictions)
    \/ DeprecateRule
    \/ DeprecateUnderperformingRules
    \/ StartLearningLoopWith(MaxLoops)
    \/ LearningCycleWith(SynthesisAnswers)
    \/ SleepOver
    \/ track_performance_metrics
    \/ Elapse(31)

Spec == Init /\ [][Next]_vars

----------------------------------------------------------------------------
(* Exploration and feedback: process_email and record_feedback alone, two *)
(* emails and two feedback events                                          *)

FirstEmail == {e \in Emails : e.id = "e1"}

MaxFeedbackOps == 4    \* operations in a run of SpecFeedback

NextFeedback ==
    \/ /\ OpsSoFar < MaxFeedbackOps
       /\ ProcessEmailWith(FirstEmail, BasePredictions, ProposerAnswers, BOOLEAN,
                           MaxEmails - 1)
    \/ /\ OpsSoFar < MaxFeedbackOps
       /\ RecordFeedbackWith(DecisionIds, FeedbackInputs, MaxFeedback - 1)

SpecFeedback == Init /\ [][NextFeedback]_vars

\* C1: once a hypothesis is resolved (validation_result set), a later feedback
\* event leaves its validation result, its resolution timestamp and its stored
\* evidence (feedback type and data) unchanged.
C1_ResolvedOnce ==
    [][\A h \in DOMAIN exploration_hypotheses :
          exploration_hypotheses[h].validation_result # "none"
          => exploration_hypotheses'[h] = exploration_hypotheses[h]]_vars

----------------------------------------------------------------------------
(* The Synthesizer: explorations of one email, each followed by the user's  *)
(* feedback on it, then runs of evolve_strategies and Decision Evaluator    *)
(* invocations                                                              *)

MaxSynthOps == 9       \* operations in a run of SpecSynth

OneBasePrediction == {[action |-> "archive", has_confidence |-> TRUE, confidence |-> 85]}
ProposerOk == {a \in ProposerAnswers : a.kind = "ok"}
ActionFeedback == {f \in FeedbackInputs : f[1] # "response_used"}

NextSynth ==
    \/ /\ OpsSoFar < MaxSynthOps
       /\ Len(training_feedback) = Len(agent_decisions)
       /\ ProcessEmailWith(FirstEmail, OneBasePrediction, ProposerOk, {TRUE}, MaxEmails)
    \/ /\ OpsSoFar < MaxSynthOps
       /\ Len(training_feedback) < Len(agent_decisions)
       /\ RecordFeedbackWith({Len(agent_decisions)}, ActionFeedback, MaxFeedback)
    \/ /\ OpsSoFar < MaxSynthOps
       /\ Len(training_feedback) = Len(agent_decisions)
       /\ EvolveStrategiesWith(SynthesisAnswers)
    \/ /\ OpsSoFar < MaxSynthOps
       /\ learned_rules # << >>
       /\ EvaluateDecisionWith(FirstEmail, OneBasePrediction)

SpecSynth == Init /\ [][NextSynth]_vars

\* C2: after any number of Synthesizer runs the rule store never holds two
\* active rules with the same (condition, action) pair.
C2_NoDuplicateActiveRules ==
    \A i, j \in DOMAIN learned_rules :
        /\ i # j
        /\ learned_rules[i].status = "active"
        /\ learned_rules[j].status = "active"
        => <<learned_rules[i].condition, learned_rules[i].conditions,
             learned_rules[i].action>>
           # <<learned_rules[j].condition, learned_rules[j].conditions,
               learned_rules[j].action>>

\* C9: every rule the Synthesizer wrote (source 'exploration_learning': the
\* documents of create_decision_rule) has a confidence within [0, 1].
C9_ConfidenceInRange ==
    \A i \in DOMAIN learned_rules :
        learned_rules[i].rule_id # 0
        => learned_rules[i].confidence >= 0 /\ learned_rules[i].confidence <= 100

\* The active rules whose every condition matches the email.
MatchingActiveRules(email) ==
    {i \in DOMAIN learned_rules :
        /\ learned_rules[i].status = "active"
        /\ rule_matches(learned_rules[i], email)}

\* C3: a Decision Evaluator invocation returns the action, the confidence and
\* the id of a matching active rule of the highest confidence, and returns the
\* base prediction with no rule id when no active rule matches.
C3_FirstMatchingRuleApplied ==
    last.op = "apply_learned_rules_to_decision"
    => LET matching == MatchingActiveRules(last.email) IN
       IF matching = {}
       THEN /\ ~last.raised
            /\ last.action = last.base_prediction.action
            /\ last.has_confidence = last.base_prediction.has_confidence
            /\ last.confidence = last.base_prediction.confidence
            /\ last.learned_rule_id = 0
       ELSE \E i \in matching :
            /\ \A j \in matching :
                   learned_rules[j].confidence <= learned_rules[i].confidence
            /\ ~last.raised
            /\ last.action = learned_rules[i].action
            /\ last.confidence = learned_rules[i].confidence
            /\ last.learned_rule_id = i

----------------------------------------------------------------------------
(* The Decision Evaluator over rules activated by update_decision_model,   *)
(* some of them deprecated by deprecate_failing_rule                        *)

MaxEvalOps == 5        \* operations in a run of SpecEval

NextEval ==
    \/ /\ OpsSoFar < MaxEvalOps
       /\ UpdateDecisionModelWith(GivenRules, {"default"})
    \/ /\ OpsSoFar < MaxEvalOps
       /\ EvaluateDecisionWith(Emails, OneBasePrediction)
    \/ /\ OpsSoFar < MaxEvalOps
       /\ DeprecateRule

SpecEval == Init /\ [][NextEval]_vars

\* C4: a Decision Evaluator invocation applies at most one rule: it returns
\* zero or one learned rule id and writes at most one rule_applications
\* record, the one of the returned rule, however many active rules match.
C4_AtMostOneRuleApplied ==
    [][/\ Len(rule_applications') <= Len(rule_applications) + 1
       /\ last'.op = "apply_learned_rules_to_decision"
          => IF last'.learned_rule_id = 0
             THEN rule_applications' = rule_applications
             ELSE /\ Len(rule_applications') = Len(rule_applications) + 1
                  /\ SubSeq(rule_applications', 1, Len(rule_applications))
                        = rule_applications
                  /\ rule_applications'[Len(rule_applications')].rule_id
                        = last'.learned_rule_id]_vars

\* An invocation returned a rule while two or more active rules matched.
C4_Witness ==
    /\ last.op = "apply_learned_rules_to_decision"
    /\ last.learned_rule_id # 0
    /\ last.written = 1
    /\ Cardinality(MatchingActiveRules(last.email)) >= 2

\* C6: a rule that is deprecated when the Decision Evaluator runs is never
\* applied (its id is not returned and no application is recorded for it), and
\* no operation removes a rule's record from the store.
C6_DeprecatedNeverApplied ==
    [][/\ \A k \in (Len(rule_applications) + 1)..Len(rule_applications') :
              /\ rule_applications'[k].rule_id \in DOMAIN learned_rules
              /\ learned_rules[rule_applications'[k].rule_id].status = "active"
       /\ (last'.op = "apply_learned_rules_to_decision" /\ last'.learned_rule_id # 0)
          => /\ last'.learned_rule_id \in DOMAIN learned_rules
             /\ learned_rules[last'.learned_rule_id].status = "active"
       /\ \A i \in DOMAIN learned_rules :
              learned_rules[i].status = "deprecated" => i \in DOMAIN learned_rules'
      ]_vars

\* An invocation passed over a deprecated rule that matches the email and
\* outranks every active rule that matches it.
C6_Witness ==
    /\ last.op = "apply_learned_rules_to_decision"
    /\ ~last.raised
    /\ \E i \in DOMAIN learned_rules :
           /\ learned_rules[i].status = "deprecated"
           /\ rule_matches(learned_rules[i], last.email)
           /\ last.learned_rule_id # i
           /\ \A j \in MatchingActiveRules(last.email) :
                  learned_rules[j].confidence < learned_rules[i].confidence

----------------------------------------------------------------------------
(* Deprecation: one rule activated by update_decision_model, applied to    *)
(* emails, deprecated by hand or by the deprecation pass, with the          *)
(* scheduler's learning cycle running in between                            *)

MaxDeprecationOps == 13    \* operations in a run of SpecDeprecation

AcmeRule == {r \in GivenRules : r.id = GivenRuleBase + 1}

NextDeprecation ==
    \/ /\ OpsSoFar < MaxDeprecationOps
       /\ UpdateDecisionModelWith(AcmeRule, {"default"})
    \/ /\ OpsSoFar < MaxDeprecationOps
       /\ EvaluateDecisionWith(FirstEmail, OneBasePrediction)
    \/ /\ OpsSoFar < MaxDeprecationOps
       /\ DeprecateRule
    \/ /\ OpsSoFar < MaxDeprecationOps
       /\ DeprecateUnderperformingRules
    \/ /\ now = 1      \* the loop is started when the agent starts
       /\ StartLearningLoopWith(1)
    \/ /\ OpsSoFar < MaxDeprecationOps
       /\ LearningCycleWith(SynthesisAnswers)

SpecDeprecation == Init /\ [][NextDeprecation]_vars

\* C5: a rule whose status is deprecated stays deprecated over every step of
\* the core: no operation sets it back to active.
C5_DeprecatedStaysDeprecated ==
    [][\A i \in DOMAIN learned_rules :
          learned_rules[i].status = "deprecated"
          => /\ i \in DOMAIN learned_rules'
             /\ learned_rules'[i].status = "deprecated"]_vars

\* C7: when a learning cycle of the scheduler has run, no rule that has been
\* used 10 times or more with an accuracy below 0.5 is still active.
C7_LowAccuracyDeprecatedByCycle ==
    last.op = "learning_cycle"
    => \A i \in DOMAIN learned_rules :
           LowAccuracy(RuleIdOf(learned_rules, i))
           => learned_rules[i].status = "deprecated"

\* C8: a deprecation call on a rule that is already deprecated leaves its
\* status, its deprecated_at timestamp and its deprecation reason as they were.
C8_DeprecationIdempotent ==
    [][\A i \in DOMAIN learned_rules :
          (/\ learned_rules[i].status = "deprecated"
           /\ last'.op = "deprecate_failing_rule"
           /\ last'.rule_id = i)
          => /\ learned_rules'[i].status = learned_rules[i].status
             /\ learned_rules'[i].deprecated_at = learned_rules[i].deprecated_at
             /\ learned_rules'[i].deprecation_reason
                   = learned_rules[i].deprecation_reason]_vars

----------------------------------------------------------------------------
(* should_explore as a function of the prediction, the history, the recent *)
(* performance and the random draw                                          *)

\* Predictions with and without a 'confidence' key, confidences in hundredths.
ExplorePredictions ==
    {[action |-> "archive", has_confidence |-> FALSE, confidence |-> 0]}
    \cup {[action |-> "archive", has_confidence |-> TRUE, confidence |-> c] :
             c \in {0, 30, 50, 59, 60, 85, 100}}

\* len(decision_history): get_similar_decisions returns at most 20 documents.
HistoryLengths == {0, 9, 10, 20}

\* get_recent_performance: 1.0 or 0.0 per decision with feedback, oldest
\* first.  No data, a flat record (plateaued) and an improving one.
Performances ==
    {<< >>,
     [i \in 1..20 |-> 100],
     [i \in 1..20 |-> IF i <= 10 THEN 0 ELSE 100]}

\* random.random() in hundredths.
ExploreDraws == {0, 9, 10, 29, 30, 35, 39, 40, 45, 50, 99}

InitExplore ==
    /\ now = 1
    /\ loops = << >>
    /\ agent_config = NoDecisionWeights
    /\ learned_rules = << >>
    /\ rule_applications = << >>
    /\ exploration_hypotheses = << >>
    /\ agent_decisions = << >>
    /\ training_feedback = << >>
    /\ feedback = << >>
    /\ model_config = [weights |-> "default", updated_at |-> 0, version |-> 0]
    /\ \E current_prediction \in ExplorePredictions, history_len \in HistoryLengths,
          performance \in Performances, draw \in ExploreDraws :
           last = [op |-> "none", current_prediction |-> current_prediction,
                   history_len |-> history_len, performance |-> performance,
                   draw |-> draw]

\* A call of should_explore on the inputs of the initial state.
ShouldExplore ==
    /\ UNCHANGED loops
    /\ last.op = "none"
    /\ now' = now + 1
    /\ LET returned == should_explore(last.current_prediction, last.history_len,
                                      last.performance, last.draw)
       IN  last' = [last EXCEPT !.op = "should_explore"]
                   @@ [explore |-> returned.explore,
                       exploration_rate |-> returned.exploration_rate]
    /\ UNCHANGED stores

NextExplore == ShouldExplore

SpecExplore == InitExplore /\ [][NextExplore]_vars

\* C10: for a prediction whose confidence is below 0.6 (0.5 when the key is
\* missing) should_explore returns exploration rate 0.4 whatever the history,
\* the performance record and the novelty check say, and explore is true
\* exactly when the draw is below 0.4.
C10_LowConfidenceRate ==
    (/\ last.op = "should_explore"
     /\ (~last.current_prediction.has_confidence
         \/ last.current_prediction.confidence < 60))
    => /\ last.exploration_rate = 40
       /\ last.explore <=> last.draw < 40

\* A prediction without confidence, a history of 20 decisions, a plateaued
\* performance record and a draw of 0.35: should_explore answered true.
C10_Witness ==
    /\ last.op = "should_explore"
    /\ ~last.current_prediction.has_confidence
    /\ last.history_len = 20
    /\ is_performance_plateaued(last.performance)
    /\ last.draw = 35
    /\ last.explore
    /\ last.exploration_rate = 40

----------------------------------------------------------------------------
(* Claims about the Feedback Validator, checked under SpecFeedback *)

\* The feedback event a record_feedback step has just stored.
LastFeedback == training_feedback[Len(training_feedback)]

\* The last operation was feedback on a stored exploration decision whose
\* hypothesis is in the store.
FeedbackOnExploration ==
    /\ last.op = "record_feedback"
    /\ last.decision_id \in DOMAIN agent_decisions
    /\ agent_decisions[last.decision_id].exploration_metadata.is_exploration
    /\ agent_decisions[last.decision_id].exploration_metadata.hypothesis_id
          \in DOMAIN exploration_hypotheses

\* C11: after feedback on an exploration decision the linked hypothesis is
\* validated exactly when the feedback is 'action_correct', or is
\* 'action_wrong' with a corrected action equal to the decision's base action;
\* otherwise it is rejected.
C11_ValidatedIffSuccessful ==
    FeedbackOnExploration
    => LET metadata == agent_decisions[last.decision_id].exploration_metadata
           success == \/ LastFeedback.feedback_type = "action_correct"
                      \/ /\ LastFeedback.feedback_type = "action_wrong"
                         /\ LastFeedback.correct_action = metadata.base_action
       IN  exploration_hypotheses[metadata.hypothesis_id].validation_result
              = IF success THEN "validated" ELSE "rejected"

\* Feedback 'action_wrong' whose corrected action is the base action of the
\* exploration decision resolved the hypothesis to validated.
C11_Witness ==
    /\ FeedbackOnExploration
    /\ LastFeedback.feedback_type = "action_wrong"
    /\ LastFeedback.correct_action
          = agent_decisions[last.decision_id].exploration_metadata.base_action
    /\ exploration_hypotheses[
          agent_decisions[last.decision_id].exploration_metadata.hypothesis_id
       ].validation_result = "validated"

\* C12: when generate_alternative_strategy fails (the proposer raises, answers
\* unparsable text or a payload that lacks a required field) the call returns
\* the prediction it was given and has added no hypothesis to the store.
C12_FailureLeavesNoHypothesis ==
    [][(/\ last'.op = "process_email"
        /\ last'.answer \in {"error", "no_success_criteria"})
       => /\ exploration_hypotheses' = exploration_hypotheses
          /\ last'.status = "success" => last'.action = last'.exploit_action]_vars

\* The last operation was feedback that names no stored decision, or a stored
\* exploration decision whose hypothesis id is not in the store.
FeedbackOnUnknown ==
    /\ last.op = "record_feedback"
    /\ \/ last.decision_id \notin DOMAIN agent_decisions
       \/ /\ agent_decisions[last.decision_id].exploration_metadata.is_exploration
          /\ agent_decisions[last.decision_id].exploration_metadata.hypothesis_id
                \notin DOMAIN exploration_hypotheses

\* C13: feedback on an unknown decision id, or on an exploration decision
\* whose hypothesis is not in the store, returns normally and changes no
\* hypothesis and no rule.
C13_UnknownFeedbackNoOp ==
    [][FeedbackOnUnknown'
       => /\ last'.status = "recorded"
          /\ exploration_hypotheses' = exploration_hypotheses
          /\ learned_rules' = learned_rules]_vars

\* Feedback arrived for an exploration decision that names no stored
\* hypothesis while the store holds an unresolved hypothesis of another
\* decision.
C13_Witness ==
    /\ FeedbackOnUnknown
    /\ last.decision_id \in DOMAIN agent_decisions
    /\ \E h \in DOMAIN exploration_hypotheses :
           exploration_hypotheses[h].validation_result = "none"

----------------------------------------------------------------------------
(* The scheduler: learning loops started by start_learning_loop_background, *)
(* their iterations and sleeps, over a store filled by explorations and     *)
(* feedback                                                                 *)

MaxSchedulerOps == 12  \* ticks of the clock in a run of SpecScheduler

NextScheduler ==
    \/ /\ OpsSoFar < MaxSchedulerOps
       /\ loops = << >>
       /\ Len(training_feedback) = Len(agent_decisions)
       /\ ProcessEmailWith(FirstEmail, OneBasePrediction, ProposerOk, {TRUE}, MaxEmails)
    \/ /\ OpsSoFar < MaxSchedulerOps
       /\ Len(training_feedback) < Len(agent_decisions)
       /\ RecordFeedbackWith({Len(agent_decisions)}, ActionFeedback, MaxFeedback)
    \/ /\ Len(training_feedback) = Len(agent_decisions)
       /\ StartLearningLoopWith(MaxLoops)
    \/ /\ OpsSoFar < MaxSchedulerOps
       /\ LearningCycleWith(SynthesisAnswers)
    \/ SleepOver

SpecScheduler == Init /\ [][NextScheduler]_vars

\* C14: an exception raised inside a learning cycle never ends the loop: the
\* task that made the cycle is left in the fixed 600 s sleep, a sleeping task
\* can only go on to its next cycle, and no task ever leaves the loop.
C14_LoopSurvivesFailure ==
    [][\A t \in DOMAIN loops :
          /\ t \in DOMAIN loops'
          /\ loops'[t].pc # "exited"
          /\ (loops[t].pc = "cycle" /\ loops'[t] # loops[t]
                 /\ last'.op = "learning_cycle" /\ last'.task = t /\ last'.failed)
             => /\ loops'[t].pc = "sleeping"
                /\ loops'[t].sleep = 600
                /\ loops'[t].iteration = loops[t].iteration + 1
          /\ (loops[t].pc = "sleeping" /\ loops'[t] # loops[t])
             => /\ loops'[t].pc = "cycle"
                /\ loops'[t].iteration = loops[t].iteration]_vars

\* A task made a second iteration, its first one having failed, and that one
\* failed too.
C14_Witness ==
    /\ last.op = "learning_cycle"
    /\ last.failed
    /\ loops[last.task].iteration = 2
    /\ loops[last.task].pc = "sleeping"
    /\ loops[last.task].sleep = 600

\* C15: at most one learning loop is running at any time, so that no two
\* learning cycles are in flight together, however often
\* start_learning_loop_background is called.
C15_SingleLoop ==
    Cardinality({t \in DOMAIN loops : loops[t].pc # "exited"}) <= 1

----------------------------------------------------------------------------
(* Usage and accuracy counts: a rule activated by update_decision_model,    *)
(* each email processed once, feedback on the decisions                     *)

MaxCountsOps == 5      \* operations in a run of SpecCounts

SecondEmail == Emails \ FirstEmail

\* No stored decision is about an email of the set.
NotProcessed(emails) ==
    \A d \in DOMAIN agent_decisions, e \in emails : agent_decisions[d].email_id # e.id

NextCounts ==
    \/ /\ OpsSoFar < MaxCountsOps
       /\ UpdateDecisionModelWith(AcmeRule, {"default"})
    \/ /\ OpsSoFar < MaxCountsOps
       /\ NotProcessed(FirstEmail)
       /\ ProcessEmailWith(FirstEmail, OneBasePrediction, ProposerAnswers, {TRUE},
                           MaxEmails)
    \/ /\ OpsSoFar < MaxCountsOps
       /\ NotProcessed(SecondEmail)
       /\ ProcessEmailWith(SecondEmail, OneBasePrediction, ProposerAnswers, {TRUE},
                           MaxEmails)
    \/ /\ OpsSoFar < MaxCountsOps
       /\ RecordFeedbackWith(DOMAIN agent_decisions, FeedbackInputs, MaxFeedback)

SpecCounts == Init /\ [][NextCounts]_vars

\* The application was made for an email whose stored decision took the rule's
\* action and was confirmed by 'action_correct' feedback.
ReceivedCorrectFeedback(application) ==
    \E d \in DOMAIN agent_decisions, e \in Emails :
        /\ e.id = agent_decisions[d].email_id
        /\ e.message_id = application.email_id
        /\ agent_decisions[d].action = application.used_learned_action
        /\ agent_decisions[d].feedback_type = "action_correct"

\* C16: the usage count and the correct count that the deprecation policy
\* reads for a rule (get_rule_performance) are the number of recorded
\* applications of the rule and the number of those that received correct
\* feedback.
C16_CountsMatch ==
    \A i \in DOMAIN learned_rules :
        LET rule_id == RuleIdOf(learned_rules, i)
            applied == {k \in DOMAIN rule_applications :
                           rule_applications[k].rule_id = rule_id}
        IN  /\ times_used(rule_id) = Cardinality(applied)
            /\ correct_count(rule_id)
                  = Cardinality({k \in applied :
                                    ReceivedCorrectFeedback(rule_applications[k])})

----------------------------------------------------------------------------
(* Claims about process_email and the Decision Evaluator *)

\* C17: when store_decision raises inside process_email, the caller still
\* receives the decision computed in memory (its action), together with the
\* error status.
C17_StoreFailureReturnsDecision ==
    [][/\ last'.op = "process_email"
       /\ now' # now
       /\ last'.exploit_action # "none"
       /\ agent_decisions' = agent_decisions
       => /\ last'.status = "error"
          /\ last'.action # "none"]_vars

\* The Synthesizer's runs followed by new messages: emails are processed and
\* given feedback until evolve_strategies has written a rule, and processed
\* again afterwards.
NextAfterSynth ==
    \/ /\ OpsSoFar < MaxSynthOps
       /\ learned_rules = << >>
       /\ Len(training_feedback) = Len(agent_decisions)
       /\ ProcessEmailWith(FirstEmail, OneBasePrediction, ProposerOk, {TRUE}, MaxEmails)
    \/ /\ OpsSoFar < MaxSynthOps
       /\ Len(training_feedback) < Len(agent_decisions)
       /\ RecordFeedbackWith({Len(agent_decisions)}, ActionFeedback, MaxFeedback)
    \/ /\ OpsSoFar < MaxSynthOps
       /\ Len(training_feedback) = Len(agent_decisions)
       /\ EvolveStrategiesWith(SynthesisAnswers)
    \/ /\ OpsSoFar < MaxSynthOps
       /\ \E h \in DOMAIN exploration_hypotheses :
              exploration_hypotheses[h].validation_result = "validated"
       /\ Len(training_feedback) = Len(agent_decisions)
       /\ ProcessEmailWith(Emails, OneBasePrediction, ProposerOk, {TRUE}, MaxEmails + 1)

SpecAfterSynth == Init /\ [][NextAfterSynth]_vars

\* C18: once the Synthesizer has run, whether it created rules or failed
\* part-way, process_email on a new message returns status success.
C18_TriageAfterSynthesis ==
    [][/\ last.op = "evolve_strategies"
       /\ last'.op = "process_email"
       => last'.status = "success"]_vars

C20_ExploresOnlyBelowRate ==
    [][/\ last'.op = "process_email"
       /\ now' # now
       /\ last'.exploit_action # "none"
       /\ last'.draw >= last'.exploration_rate
       => /\ exploration_hypotheses' = exploration_hypotheses
          /\ last'.exploration_metadata = NoExploration
          /\ last'.status = "success"
             => /\ last'.action = last'.exploit_action
                /\ agent_decisions'[last'.decision_id].exploration_metadata
                     = NoExploration]_vars

----------------------------------------------------------------------------
(* Claims about the triggers of should_explore *)

\* is_novel_context(email_data, db) when it is run: the query of
\* get_similar_decisions with limit(5), fewer than 5 documents.
is_novel_context(history_len) ==
    LET count == IF history_len < 5 THEN history_len ELSE 5
    IN  count < 5

\* C21: for a prediction of confidence >= 0.6 the rate of should_explore is
\* that of the first trigger that holds: fewer than 10 prior decisions 0.3,
\* plateau 0.5, context seen fewer than 5 times 0.4; 0.1 when none holds.
C21_FirstTriggerRate ==
    (/\ last.op = "should_explore"
     /\ last.current_prediction.has_confidence
     /\ last.current_prediction.confidence >= 60)
    => last.exploration_rate =
         IF last.history_len < 10 THEN 30
         ELSE IF is_performance_plateaued(last.performance) THEN 50
         ELSE IF is_novel_context(last.history_len) THEN 40
         ELSE 10

----------------------------------------------------------------------------
(* Claims about the cycle of the scheduler *)

\* C22: a scheduler cycle in which neither the store nor the proposer fails
\* runs to its end: it is not caught by the except clause, it has written
\* optimized weights when the accuracy is below 0.8, and it sleeps the
\* configured interval, not the 600 s of the failure path.
C22_CycleRunsToIntervalSleep ==
    [][/\ last'.op = "learning_cycle"
       /\ now' # now
       /\ ~last'.proposer_failed
       => /\ ~last'.failed
          /\ last'.sleep = loops[last'.task].interval_hours * 3600
          /\ loops'[last'.task].sleep = loops[last'.task].interval_hours * 3600
          /\ calculate_accuracy < 80
             => model_config'.version > model_config.version]_vars

----------------------------------------------------------------------------
(* Exploration on decisions made by learned rules: rules activated by       *)
(* update_decision_model, an email with any base decision, feedback         *)

MaxBaseActionOps == 4      \* operations in a run of SpecRuleExploration

NextRuleExploration ==
    \/ /\ OpsSoFar < MaxBaseActionOps
       /\ UpdateDecisionModelWith(AcmeRule, {"default"})
    \/ /\ OpsSoFar < MaxBaseActionOps
       /\ ProcessEmailWith(FirstEmail, BasePredictions, ProposerOk, {TRUE}, MaxEmails)
    \/ /\ OpsSoFar < MaxBaseActionOps
       /\ RecordFeedbackWith(DOMAIN agent_decisions, FeedbackInputs, MaxFeedback)

SpecRuleExploration == Init /\ [][NextRuleExploration]_vars

\* C23: the base action recorded with an exploration decision of process_email
\* is the action of the decision handed to should_explore and
\* generate_alternative_strategy, whether or not a learned rule made it.
C23_BaseActionIsPreExploration ==
    [][/\ last'.op = "process_email"
       /\ now' # now
       /\ last'.status = "success"
       /\ last'.exploration_metadata.is_exploration
       => /\ last'.exploration_metadata.base_action = last'.exploit_action
          /\ agent_decisions'[last'.decision_id].exploration_metadata.base_action
               = last'.exploit_action]_vars

----------------------------------------------------------------------------
(* Claims about the runs of the Synthesizer *)

\* C24: a synthesis call of the Strategy Proposer that fails for a candidate
\* cluster is swallowed inside the Synthesizer: evolve_strategies returns
\* without raising, and the rules it reports are the rules it wrote.
C24_SynthesisFailureSwallowed ==
    [][/\ last'.op = "evolve_strategies"
       /\ now' # now
       => /\ ~last'.raised
          /\ Cardinality(DOMAIN learned_rules' \ DOMAIN learned_rules)
               = last'.new_rules_created]_vars

\* The validated hypotheses of the store that have the cluster key.
ValidatedWithKey(key) ==
    {h \in DOMAIN exploration_hypotheses :
        /\ exploration_hypotheses[h].validation_result = "validated"
        /\ ClusterKey(h) = key}

\* The cluster keys that 3 or more validated hypotheses share.
LargeClusterKeys ==
    {key \in {ClusterKey(h) : h \in DOMAIN exploration_hypotheses} :
        Cardinality(ValidatedWithKey(key)) >= 3}

\* C25: a Synthesizer run creates at most one rule for each cluster key that
\* 3 or more validated hypotheses share, and so no rule when no key has 3
\* validated hypotheses.
C25_RulesFromLargeClusters ==
    [][/\ last'.op = "evolve_strategies"
       /\ now' # now
       => Cardinality(DOMAIN learned_rules' \ DOMAIN learned_rules)
            <= Cardinality(LargeClusterKeys)]_vars

\* A run of the Synthesizer has just created a rule from a cluster of 3
\* validated hypotheses.
C25_Witness ==
    /\ last.op = "evolve_strategies"
    /\ last.new_rules_created >= 1
    /\ LargeClusterKeys # {}
    /\ \E i \in DOMAIN learned_rules : learned_rules[i].created_at = now - 2

----------------------------------------------------------------------------
(* Rules of equal confidence: rule dicts that carry 'created_at', activated *)
(* by update_decision_model and evaluated on the emails                     *)

MaxTieOps == 4      \* operations in a run of SpecTies

\* Rule dicts with a 'created_at' (in ticks).  The first two match the same
\* email with the same confidence; the document id of the first is the lower
\* one and its created_at the later one.
DatedRules ==
    { [id |-> GivenRuleBase + 1, conditions |-> {Clause("sender_domain", "acme.com")},
       action |-> "archive", confidence |-> 90, created_at |-> 2],
      [id |-> GivenRuleBase + 2, conditions |-> {Clause("relationship_type", "work")},
       action |-> "star", confidence |-> 90, created_at |-> 1],
      [id |-> GivenRuleBase + 3, conditions |-> {Clause("has_attachment", "true")},
       action |-> "star", confidence |-> 70, created_at |-> 1] }

NextTies ==
    \/ /\ OpsSoFar < MaxTieOps
       /\ UpdateDecisionModelWith(DatedRules, {"default"})
    \/ /\ OpsSoFar < MaxTieOps
       /\ EvaluateDecisionWith(Emails, OneBasePrediction)

SpecTies == Init /\ [][NextTies]_vars

\* C26: when several active rules match, the applied rule has the highest
\* confidence and, among the matching rules of that confidence, the earliest
\* created_at.
C26_TiesByCreatedAt ==
    (last.op = "apply_learned_rules_to_decision" /\ MatchingActiveRules(last.email) # {})
    => \E i \in MatchingActiveRules(last.email) :
          /\ last.learned_rule_id = learned_rules[i].id
          /\ \A j \in MatchingActiveRules(last.email) :
                \/ learned_rules[j].confidence < learned_rules[i].confidence
                \/ /\ learned_rules[j].confidence = learned_rules[i].confidence
                   /\ learned_rules[i].created_at <= learned_rules[j].created_at

\* The condition keys the loop of rule_matches has a branch for.
RecognisedKeys ==
    {"sender_domain", "relationship_type", "hour_of_day", "subject_contains",
     "importance_score", "cluster_reply_rate", "has_attachment"}

\* The rule has no 'conditions', an empty mapping, or only keys that
\* rule_matches has no branch for.
NoRecognisedCondition(rule) ==
    \A c \in rule.conditions : c.key \notin RecognisedKeys

\* C29: a rule whose conditions are absent, empty or made of unrecognised
\* keys matches every email; when such an active rule is first in confidence
\* order, the Decision Evaluator returns its action and its id whatever the
\* email and the base prediction.
C29_UnconditionalRuleOverrides ==
    /\ \A i \in DOMAIN learned_rules :
          NoRecognisedCondition(learned_rules[i])
          => \A email \in Emails : rule_matches(learned_rules[i], email)
    /\ (/\ last.op = "apply_learned_rules_to_decision"
        /\ RulesToCheck # << >>
        /\ NoRecognisedCondition(learned_rules[RulesToCheck[1]]))
       => /\ ~last.raised
          /\ last.action = learned_rules[RulesToCheck[1]].action
          /\ last.learned_rule_id = learned_rules[RulesToCheck[1]].id
          /\ last.learned_rule_id # 0

----------------------------------------------------------------------------
(* The weight configurations update_decision_model is given: the stored or  *)
(* default weights (STEP 3 of the scheduler), a caller's vector, and the    *)
(* dict optimize_decision_weights returns (STEP 5 of the scheduler)         *)

MaxWeightOps == 3      \* operations in a run of SpecWeightsWritten

\* What each value of new_weights holds: numeric is whether every value of the
\* dict is a number, values the numbers in hundredths.  "default" is the dict
\* of get_current_weights; "optimization_result" is
\* {'improved': False, 'reason': ...}, a bool and a string.
WeightDoc(new_weights) ==
    CASE new_weights = "default" ->
           [numeric |-> TRUE, values |-> <<30, 20, 25, 15, 10>>]
      [] new_weights = "tuned" ->
           [numeric |-> TRUE, values |-> <<40, 20, 20, 10, 10>>]
      [] OTHER ->
           [numeric |-> FALSE, values |-> << >>]

\* The arguments of the two calls of update_decision_model in the scheduler.
SchedulerWeights == {"default", "optimization_result"}

NextWeightsWritten ==
    /\ OpsSoFar < MaxWeightOps
    /\ UpdateDecisionModelWith(GivenRules, SchedulerWeights)

SpecWeightsWritten == Init /\ [][NextWeightsWritten]_vars

\* C27: every weight configuration written to model_config is a mapping of
\* named nonnegative weights that sum to 1, with a version strictly greater
\* than the one it replaces.
C27_WeightsSumToOne ==
    [][model_config' # model_config
       => /\ WeightDoc(model_config'.weights).numeric
          /\ \A k \in DOMAIN WeightDoc(model_config'.weights).values :
                WeightDoc(model_config'.weights).values[k] >= 0
          /\ SumSeq(WeightDoc(model_config'.weights).values) = 100
          /\ model_config'.version > model_config.version]_vars

----------------------------------------------------------------------------
(* The Performance Monitor: emails processed and given feedback over three  *)
(* weeks, and track_performance_metrics                                     *)

MaxMetricsOps == 3      \* operations within a day in a run of SpecMetrics
MaxMetricsDay == 14     \* the last day of a run of SpecMetrics

NextMetrics ==
    \/ /\ OpsSoFar < MaxMetricsOps
       /\ ProcessEmailWith(FirstEmail, OneBasePrediction, ProposerOk, {TRUE},
                           MaxEmails - 1)
    \/ /\ OpsSoFar < MaxMetricsOps
       /\ RecordFeedbackWith(DOMAIN agent_decisions, ActionFeedback, MaxFeedback - 1)
    \/ /\ OpsSoFar < MaxMetricsOps
       /\ track_performance_metrics
    \/ /\ now \div TicksPerDay < MaxMetricsDay
       /\ Elapse(7)

SpecMetrics == Init /\ [][NextMetrics]_vars

\* The decisions of a trailing week, at time t, that have feedback.
WithFeedbackInWeek(t, w) ==
    SelectSeq(get_decisions_in_window(t, 7 * (w - 1), 7),
              LAMBDA d : d.feedback_type # "none")

\* C28: for each trailing 7-day window, the accuracy track_performance_metrics
\* reports is the number of decisions with correct feedback over the number
\* of decisions of the window that have feedback, and 0 when there is none.
C28_AccuracyOverFeedback ==
    last.op = "track_performance_metrics"
    => \A w \in 1..3 :
          LET judged == WithFeedbackInWeek(last.at, w)
              correct == SelectSeq(judged, LAMBDA d : d.feedback_type = "action_correct")
          IN  last.accuracy[w] =
                 IF judged = << >> THEN 0 ELSE (100 * Len(correct)) \div Len(judged)

----------------------------------------------------------------------------
(* optimize_decision_weights as a function of the decisions with feedback   *)

\* The numbers of decisions with feedback: none, fewer than the 20 the
\* optimizer asks for, and 20 or more.
FeedbackCounts == {0, 1, 19, 20, 21, 24}

InitOptimize ==
    /\ now = 1
    /\ loops = << >>
    /\ agent_config = NoDecisionWeights
    /\ learned_rules = << >>
    /\ rule_applications = << >>
    /\ exploration_hypotheses = << >>
    /\ agent_decisions = << >>
    /\ training_feedback = << >>
    /\ feedback = << >>
    /\ model_config = [weights |-> "default", updated_at |-> 0, version |-> 0]
    /\ \E n \in FeedbackCounts : \E correct \in 0..n :
           last = [op |-> "none", recent_decisions |-> [n |-> n, correct |-> correct]]

\* A call of optimize_decision_weights on the decisions of the initial state.
OptimizeDecisionWeights ==
    /\ last.op = "none"
    /\ now' = now + 1
    /\ LET result == optimize_decision_weights(last.recent_decisions, agent_config)
       IN  /\ agent_config' = result.config
           /\ last' = [op |-> "optimize_decision_weights",
                       recent_decisions |-> last.recent_decisions,
                       improved |-> result.improved, reason |-> result.reason]
    /\ UNCHANGED <<loops, learned_rules, rule_applications, exploration_hypotheses,
                   agent_decisions, training_feedback, feedback, model_config>>

NextOptimize == OptimizeDecisionWeights

SpecOptimize == InitOptimize /\ [][NextOptimize]_vars

====
